---- MODULE Spec2Model ----
(***************************************************************************)
(* Storage Class Memory manager (src/scm.c): a bump allocator whose heap   *)
(* is a file mapped MAP_SHARED at the fixed address VIRT_ADDR.             *)
(*                                                                         *)
(* The mapped region is modelled byte by byte.  The machine is the LP64    *)
(* little-endian machine the code is built for (sizeof(int) = 4,           *)
(* sizeof(size_t) = 8), with the number of bits per byte scaled down from  *)
(* 8 to ByteBits so that the value ranges of int and size_t, and the file  *)
(* sizes at which they are exceeded, are small enough to enumerate.  Page  *)
(* size and the mapping address are scaled the same way.                   *)
(***************************************************************************)
EXTENDS Integers, Sequences, FiniteSets, TLC

(* ---- bounds of the model ---- *)
ByteBits == 2
PageSize == 32
SmallCap == 48
LargeCap == 160
MaxOps == 6
MaxCrashAt == 3

(* ---- the machine ---- *)
SizeofInt == 4
SizeofSizeT == 8

ByteMod == 2 ^ ByteBits
IntMod == ByteMod ^ SizeofInt
SizeMod == ByteMod ^ SizeofSizeT

\* #define VIRT_ADDR 0x600000000000, scaled to the model's pointer width
VIRT_ADDR == 6 * (SizeMod \div 16)
\* #define INT_SIZE 2 * sizeof(int)
INT_SIZE == 2 * SizeofInt
\* #define METADATA_SIZE 2 * sizeof(size_t)
METADATA_SIZE == 2 * SizeofSizeT

NULL == 0
\* MAP_FAILED is (void *) -1
MAP_FAILED == SizeMod - 1

VARIABLES
    st_size,   \* size of the backing file (st.st_size), fixed for its lifetime
    mem,       \* bytes of the pages that back the mapping (the file, then the
               \* rest of its last page): offset -> byte, for the non-zero bytes
    scm,       \* the struct scm of the open handle (live = FALSE: none)
    fds,       \* descriptor numbers open in the process
    badclose,  \* number of close() calls made on a descriptor that was not open
    issued,    \* addresses handed out since the arena was last initialised
    saved,     \* utilized and the block chain as scm_close found them
    clean,     \* the arena was initialised by scm_open and no call since has
               \* ended in a fault
    call,      \* the last API call: operation, arguments, outcome
    nops       \* number of API calls made

vars == <<st_size, mem, scm, fds, badclose, issued, saved, clean, call, nops>>

(* ---- memory ---- *)

\* mmap maps whole pages: the bytes of the mapping's last page beyond the end
\* of the file are accessible, but are not part of the file
MapLen(cap) == ((cap + PageSize - 1) \div PageSize) * PageSize

MapTop == MapLen(st_size)

Off(addr) == addr - VIRT_ADDR

\* an access of n bytes at addr lies inside the mapped pages
Accessible(addr, n) == Off(addr) >= 0 /\ Off(addr) + n <= MapTop

\* the byte at offset off
Peek(m, off) == IF off \in DOMAIN m THEN m[off] ELSE 0

\* the memory m with byte b at offset off
Poke(m, off, b) ==
    IF b # 0 THEN (off :> b) @@ m
    ELSE IF off \in DOMAIN m THEN [o \in DOMAIN m \ {off} |-> m[o]]
    ELSE m

RECURSIVE Load(_, _, _)
\* little-endian load of n bytes at offset off
Load(m, off, n) ==
    IF n = 0 THEN 0 ELSE Peek(m, off) + ByteMod * Load(m, off + 1, n - 1)

RECURSIVE Put(_, _, _, _)
\* little-endian store of the low n bytes of v at offset off
Put(m, off, n, v) ==
    IF n = 0 THEN m
    ELSE Put(Poke(m, off, v % ByteMod), off + 1, n - 1, v \div ByteMod)

\* conversion size_t -> int (assignment to an int lvalue)
SizeTToInt(v) ==
    LET r == v % IntMod IN IF r >= IntMod \div 2 THEN r - IntMod ELSE r

\* conversion int -> size_t
IntToSizeT(i) == i % SizeMod

LoadSizeT(m, addr) == Load(m, Off(addr), SizeofSizeT)

LoadInt(m, addr) == SizeTToInt(Load(m, Off(addr), SizeofInt))

\* A run of stores is threaded through a record [mem, ok]; a store outside
\* the mapped pages faults (ok = FALSE) and nothing after it is executed.
StoreSizeT(ms, addr, v) ==
    IF ms.ok /\ Accessible(addr, SizeofSizeT)
    THEN [mem |-> Put(ms.mem, Off(addr), SizeofSizeT, v % SizeMod), ok |-> TRUE]
    ELSE [mem |-> ms.mem, ok |-> FALSE]

StoreInt(ms, addr, i) ==
    IF ms.ok /\ Accessible(addr, SizeofInt)
    THEN [mem |-> Put(ms.mem, Off(addr), SizeofInt, i % IntMod), ok |-> TRUE]
    ELSE [mem |-> ms.mem, ok |-> FALSE]

RECURSIVE StoreBytes(_, _, _)
\* byte-by-byte copy of the sequence s to addr
StoreBytes(ms, addr, s) ==
    IF s = <<>> THEN ms
    ELSE IF ms.ok /\ Accessible(addr, 1)
    THEN StoreBytes([mem |-> Put(ms.mem, Off(addr), 1, Head(s)), ok |-> TRUE],
                    addr + 1, Tail(s))
    ELSE [mem |-> ms.mem, ok |-> FALSE]

(* ---- struct scm ---- *)

NoScm ==
    [live |-> FALSE, fd |-> 0, base |-> NULL, mapped |-> NULL,
     capacity |-> 0, utilized |-> 0]

NoSaved == [valid |-> FALSE, utilized |-> 0, blocks |-> <<>>, payloads |-> <<>>]

\* outcome of a call: it returned ret, or the process died in it
Returned(ret, m, utilized) ==
    [status |-> "ret", ret |-> ret, mem |-> m, utilized |-> utilized]

Fault(m, utilized) ==
    [status |-> "fault", ret |-> NULL, mem |-> m, utilized |-> utilized]

Hang(m, utilized) ==
    [status |-> "hang", ret |-> NULL, mem |-> m, utilized |-> utilized]

(* ---- scm_open: lines 139-152, on the freshly mapped file ---- *)
scm_open_arena(m, truncate) ==
    LET size_info == VIRT_ADDR
        ms0 == [mem |-> m, ok |-> TRUE]
    IN  IF LoadInt(m, size_info) # 1 \/ truncate
        THEN [mem |-> StoreInt(StoreInt(ms0, size_info, 1),
                               size_info + SizeofInt, 0).mem,
              utilized |-> 0,
              init |-> TRUE]
        ELSE [mem |-> m,
              utilized |-> IntToSizeT(LoadInt(m, size_info + SizeofInt)),
              init |-> FALSE]

(* ---- scm_malloc ---- *)
\* scm_malloc with the block header written before the capacity check, the
\* order scm_strdup uses: a request that does not fit leaves its header behind
scm_malloc_header_first(s, m, size) ==
    IF ~s.live \/ s.base = MAP_FAILED \/ size = 0
    THEN Returned(NULL, m, s.utilized)
    ELSE
        LET block_meta == (s.base + s.utilized) % SizeMod
            ms1 == StoreSizeT([mem |-> m, ok |-> TRUE], block_meta, 1)
            ms2 == StoreSizeT(ms1, block_meta + SizeofSizeT, size)
            utilized == (s.utilized + size + METADATA_SIZE) % SizeMod
            ms3 == StoreInt(ms2, s.mapped + SizeofInt, SizeTToInt(utilized))
        IN  IF ~ms2.ok THEN Fault(ms2.mem, s.utilized)
            ELSE IF utilized > s.capacity THEN Returned(NULL, ms2.mem, s.utilized)
            ELSE IF ms3.ok
            THEN Returned((block_meta + METADATA_SIZE) % SizeMod, ms3.mem, utilized)
            ELSE Fault(ms3.mem, s.utilized)

scm_malloc(s, m, size) ==
    IF ~s.live \/ s.base = MAP_FAILED \/ size = 0
    THEN Returned(NULL, m, s.utilized)
    ELSE IF (s.utilized + size + METADATA_SIZE) % SizeMod > s.capacity
    THEN Returned(NULL, m, s.utilized)
    ELSE
        LET block_meta == (s.base + s.utilized) % SizeMod
            ms1 == StoreSizeT([mem |-> m, ok |-> TRUE], block_meta, 1)
            ms2 == StoreSizeT(ms1, block_meta + SizeofSizeT, size)
            utilized == (s.utilized + size + METADATA_SIZE) % SizeMod
            ms3 == StoreInt(ms2, s.mapped + SizeofInt, SizeTToInt(utilized))
        IN  IF ms3.ok
            THEN Returned((block_meta + METADATA_SIZE) % SizeMod, ms3.mem, utilized)
            ELSE Fault(ms3.mem, s.utilized)

(* ---- scm_strdup ---- *)
\* scm_strdup with the capacity check of scm_malloc (line 172) in front of
\* its stores
scm_strdup_checked(s, m, isnull, input_str) ==
    IF ~s.live
    THEN Fault(m, s.utilized)
    ELSE IF isnull \/ s.base = MAP_FAILED
    THEN Returned(NULL, m, s.utilized)
    ELSE IF (s.utilized + Len(input_str) + 1 + METADATA_SIZE) % SizeMod > s.capacity
    THEN Returned(NULL, m, s.utilized)
    ELSE
        LET allocation_metadata == (s.base + s.utilized) % SizeMod
            ms1 == StoreSizeT([mem |-> m, ok |-> TRUE], allocation_metadata, 1)
            ms2 == StoreSizeT(ms1, allocation_metadata + SizeofSizeT,
                              Len(input_str) + 1)
            duplicated_str == (allocation_metadata + METADATA_SIZE) % SizeMod
            ms3 == StoreBytes(ms2, duplicated_str, Append(input_str, 0))
            utilized == (s.utilized + Len(input_str) + 1 + METADATA_SIZE) % SizeMod
            ms4 == StoreInt(ms3, s.mapped + SizeofInt, SizeTToInt(utilized))
        IN  IF ms4.ok
            THEN Returned(duplicated_str, ms4.mem, utilized)
            ELSE Fault(ms4.mem, s.utilized)

\* input_str is NULL (isnull) or the bytes of a string, without its terminator
scm_strdup(s, m, isnull, input_str) ==
    IF ~s.live
    THEN Fault(m, s.utilized)      \* line 201 reads scm->base before the check
    ELSE IF isnull \/ s.base = MAP_FAILED
    THEN Returned(NULL, m, s.utilized)
    ELSE
        LET allocation_metadata == (s.base + s.utilized) % SizeMod
            ms1 == StoreSizeT([mem |-> m, ok |-> TRUE], allocation_metadata, 1)
            ms2 == StoreSizeT(ms1, allocation_metadata + SizeofSizeT,
                              Len(input_str) + 1)
            duplicated_str == (allocation_metadata + METADATA_SIZE) % SizeMod
            ms3 == StoreBytes(ms2, duplicated_str, Append(input_str, 0))
            utilized ==
                IF ms3.ok
                THEN (s.utilized
                      + LoadSizeT(ms3.mem, allocation_metadata + SizeofSizeT)
                      + METADATA_SIZE) % SizeMod
                ELSE s.utilized
            ms4 == StoreInt(ms3, s.mapped + SizeofInt, SizeTToInt(utilized))
        IN  IF ms4.ok
            THEN Returned(duplicated_str, ms4.mem, utilized)
            ELSE Fault(ms4.mem, s.utilized)

\* Line 201 reads scm->base and scm->utilized before line 204 tests scm: with a
\* NULL handle the read is undefined.  A build that performs the load where it
\* is written faults; a build that delays it to the first use of the pointer
\* reaches the test and returns NULL.
scm_strdup_outcomes(s, m, isnull, input_str) ==
    {scm_strdup(s, m, isnull, input_str)}
    \cup (IF ~s.live THEN {Returned(NULL, m, s.utilized)} ELSE {})

(* ---- scm_mbase ---- *)
\* scm_mbase without the step over the first block header
scm_mbase_no_header(s) ==
    IF ~s.live THEN NULL ELSE s.base

scm_mbase(s) ==
    IF ~s.live THEN NULL
    ELSE IF s.utilized # 0 THEN (s.base + 2 * SizeofSizeT) % SizeMod
    ELSE s.base

(* ---- scm_free ---- *)
RECURSIVE FreeScan(_, _, _, _, _)
\* the while loop of lines 240-247; steps bounds the iterations that stay
\* inside the mapping, after which an address has repeated
FreeScan(s, m, current_address, memory_ptr, steps) ==
    LET base_address == scm_mbase(s) IN
    IF ~(current_address < (base_address + s.utilized) % SizeMod) THEN "notfound"
    ELSE IF current_address = memory_ptr THEN "found"
    ELSE IF ~Accessible(current_address - SizeofSizeT, SizeofSizeT) THEN "fault"
    ELSE IF steps = 0 THEN "hang"
    ELSE FreeScan(s, m,
                  (current_address
                   + LoadSizeT(m, current_address - SizeofSizeT)
                   + METADATA_SIZE) % SizeMod,
                  memory_ptr, steps - 1)

scm_free(s, m, memory_ptr) ==
    IF ~s.live
    THEN Fault(m, s.utilized)      \* line 240 reads scm->utilized through NULL
    ELSE
        LET block_found == FreeScan(s, m, scm_mbase(s), memory_ptr, MapTop) IN
        CASE block_found = "notfound" -> Returned(NULL, m, s.utilized)
          [] block_found = "fault" -> Fault(m, s.utilized)
          [] block_found = "hang" -> Hang(m, s.utilized)
          [] block_found = "found" ->
                LET ms == StoreSizeT([mem |-> m, ok |-> TRUE],
                                     memory_ptr - 2 * SizeofSizeT, 0)
                IN  IF ms.ok THEN Returned(NULL, ms.mem, s.utilized)
                    ELSE Fault(ms.mem, s.utilized)

(* ---- introspection ---- *)
scm_utilized(s) == IF ~s.live THEN 0 ELSE s.utilized

scm_capacity(s) == IF ~s.live THEN 0 ELSE s.capacity

(* ---- the block chain, as the bytes of the mapping show it ---- *)

Min(a, b) == IF a < b THEN a ELSE b

\* the n bytes at addr that lie inside the mapped pages
Bytes(m, addr, n) ==
    IF Off(addr) < 0 THEN <<>>
    ELSE [i \in 1..Min(n, MapTop - Off(addr)) |-> Peek(m, Off(addr) + i - 1)]

RECURSIVE TrimZeros(_)
\* a byte sequence without its trailing zero bytes
TrimZeros(s) ==
    IF s = <<>> \/ s[Len(s)] # 0 THEN s ELSE TrimZeros(SubSeq(s, 1, Len(s) - 1))

RECURSIVE ChainFrom(_, _, _, _)
\* The blocks read from the header at hdr up to limit, each found from the one
\* before it by next = address + header size + stored payload size.  A block
\* is its payload address, its in-use word and its size word.
ChainFrom(m, hdr, limit, fuel) ==
    IF hdr >= limit \/ fuel = 0 \/ ~Accessible(hdr, METADATA_SIZE) THEN <<>>
    ELSE LET size == LoadSizeT(m, hdr + SizeofSizeT) IN
         <<[addr |-> hdr + METADATA_SIZE, inuse |-> LoadSizeT(m, hdr), size |-> size]>>
         \o ChainFrom(m, hdr + METADATA_SIZE + size, limit, fuel - 1)

\* the chain of a store whose utilization counter is utilized
Chain(m, utilized) ==
    ChainFrom(m, VIRT_ADDR + INT_SIZE, VIRT_ADDR + INT_SIZE + utilized, MapTop)

\* the first block of that chain, if it has one
FirstBlock(m, utilized) ==
    ChainFrom(m, VIRT_ADDR + INT_SIZE, VIRT_ADDR + INT_SIZE + utilized, 1)

\* the payloads of the blocks of chain c (trailing zero bytes left out)
Payloads(m, c) == [i \in DOMAIN c |-> TrimZeros(Bytes(m, c[i].addr, c[i].size))]

RECURSIVE ChainBytes(_)
\* the sum of (header + payload) sizes over a chain
ChainBytes(c) ==
    IF c = <<>> THEN 0 ELSE METADATA_SIZE + Head(c).size + ChainBytes(Tail(c))

(* ---- inputs ---- *)

\* sizes of the files the store is opened on
Capacities == {SmallCap, LargeCap}

\* request sizes: zero, small, most of the large file, the top of size_t
Sizes == {0, 1, 7, 17, LargeCap - 39, SizeMod - METADATA_SIZE}

\* texts handed to scm_strdup (non-zero bytes)
Strings == {<<>>, <<2, 3>>}

\* what the system calls of scm_open do
OpenOutcomes == {"ok", "open_fails", "fstat_fails", "not_regular", "mmap_fails"}

\* the handle argument of a call: the handle the caller holds, or NULL when
\* it holds none
Handles == IF scm.live THEN {scm} ELSE {NoScm}

\* the sizes a caller passes to scm_malloc
MallocArgs == IF scm.live THEN Sizes ELSE {1}

\* the texts a caller passes to scm_strdup
StrdupArgs == IF scm.live THEN Strings ELSE {<<2, 3>>}

\* the addresses a caller passes to scm_free
FreeArgs ==
    IF scm.live
    THEN {scm.base, (scm.base + scm.utilized + METADATA_SIZE) % SizeMod}
         \cup {issued[i].addr : i \in DOMAIN issued}
         \cup {issued[i].addr + 1 : i \in DOMAIN issued}
    ELSE {NULL, VIRT_ADDR + INT_SIZE + METADATA_SIZE}

(* ---- the process and the page cache ---- *)

\* The bytes of the last page beyond the end of the file are never written to
\* the file; once the mapping is gone they may read as zero when it is mapped
\* again (written back, or a new process) or still be in the page cache.
ZeroTail(m) == [o \in {x \in DOMAIN m : x < st_size} |-> m[o]]

AfterUnmap(m) == IF st_size = MapTop THEN {m} ELSE {m, ZeroTail(m)}

\* the lowest descriptor number not in use
NewFd == CHOOSE fd \in 3..(3 + Cardinality(fds)) :
            fd \notin fds /\ \A g \in 3..(fd - 1) : g \in fds

\* every call is counted
Count == nops < MaxOps /\ nops' = nops + 1

\* a call of operation op on handle argument s ends with outcome r
Finish(op, s, arg, str, r) ==
    /\ Count
    /\ call' = [op |-> op, hnull |-> ~s.live, arg |-> arg, str |-> str,
                status |-> r.status, ret |-> r.ret]
    /\ IF r.status = "ret"
       THEN /\ mem' = r.mem
            /\ scm' = IF s.live THEN [scm EXCEPT !.utilized = r.utilized] ELSE scm
            /\ UNCHANGED <<fds, saved, clean>>
       ELSE \* the process is killed: its mapping and descriptors go with it
            /\ mem' \in AfterUnmap(r.mem)
            /\ scm' = NoScm
            /\ fds' = {}
            /\ saved' = NoSaved
            /\ clean' = FALSE
    /\ UNCHANGED <<st_size, badclose>>

(* ---- the state machine ---- *)

Init ==
    /\ st_size \in Capacities
    /\ mem = <<>>
    /\ scm = NoScm
    /\ fds = {}
    /\ badclose = 0
    /\ issued = <<>>
    /\ saved = NoSaved
    /\ clean = FALSE
    /\ call = [op |-> "none", hnull |-> FALSE, arg |-> 0, str |-> <<>>,
               status |-> "ret", ret |-> NULL]
    /\ nops = 0

\* scm_open(pathname, truncate)
Open(truncate, outcome) ==
    /\ ~scm.live
    /\ Count
    /\ UNCHANGED <<st_size, badclose>>
    /\ IF outcome = "ok"
       THEN LET a == scm_open_arena(mem, truncate) IN
            /\ mem' = a.mem
            /\ scm' = [live |-> TRUE, fd |-> NewFd, base |-> VIRT_ADDR + INT_SIZE,
                       mapped |-> VIRT_ADDR, capacity |-> st_size,
                       utilized |-> a.utilized]
            /\ fds' = fds                      \* opened, and closed at line 155
            /\ issued' = IF a.init THEN <<>> ELSE issued
            /\ clean' = (a.init \/ clean)
            /\ call' = [op |-> "open", hnull |-> FALSE,
                        arg |-> IF truncate THEN 1 ELSE 0, str |-> <<>>,
                        status |-> "ret", ret |-> VIRT_ADDR]
            /\ UNCHANGED saved
       ELSE /\ fds' = IF outcome = "mmap_fails" THEN fds \cup {NewFd} ELSE fds
            /\ call' = [op |-> "open", hnull |-> FALSE,
                        arg |-> IF truncate THEN 1 ELSE 0, str |-> <<>>,
                        status |-> "ret", ret |-> NULL]
            /\ UNCHANGED <<mem, scm, issued, saved, clean>>

\* scm_close(scm)
Close(s) ==
    /\ Count
    /\ call' = [op |-> "close", hnull |-> ~s.live, arg |-> 0, str |-> <<>>,
                status |-> "ret", ret |-> NULL]
    /\ UNCHANGED <<st_size, issued, clean>>
    /\ IF ~s.live
       THEN UNCHANGED <<mem, scm, fds, badclose, saved>>
       ELSE /\ mem' \in AfterUnmap(mem)            \* unmap_memory
            /\ IF s.fd \in fds                     \* close_file: fd is not -1
               THEN fds' = fds \ {s.fd} /\ UNCHANGED badclose
               ELSE badclose' = badclose + 1 /\ UNCHANGED fds
            /\ scm' = NoScm                        \* free(scm)
            /\ saved' = [valid |-> clean, utilized |-> s.utilized,
                         blocks |-> Chain(mem, s.utilized),
                         payloads |-> Payloads(mem, Chain(mem, s.utilized))]

\* scm_malloc(scm, size)
Malloc(s, size) ==
    LET r == scm_malloc(s, mem, size) IN
    /\ Finish("malloc", s, size, <<>>, r)
    /\ issued' = IF r.status = "ret" /\ r.ret # NULL
                 THEN Append(issued, [addr |-> r.ret, size |-> size, by |-> "malloc"])
                 ELSE issued

\* scm_strdup(scm, input_str)
Strdup(s, isnull, input_str) ==
    \E r \in scm_strdup_outcomes(s, mem, isnull, input_str) :
    /\ Finish("strdup", s, IF isnull THEN 0 ELSE 1, input_str, r)
    /\ issued' = IF r.status = "ret" /\ r.ret # NULL
                 THEN Append(issued, [addr |-> r.ret, size |-> Len(input_str) + 1,
                                      by |-> "strdup"])
                 ELSE issued

\* scm_free(scm, memory_ptr)
Free(s, memory_ptr) ==
    /\ Finish("free", s, memory_ptr, <<>>, scm_free(s, mem, memory_ptr))
    /\ UNCHANGED issued

Next ==
    \/ \E truncate \in BOOLEAN, outcome \in OpenOutcomes : Open(truncate, outcome)
    \/ \E s \in Handles : Close(s)
    \/ \E s \in Handles, size \in MallocArgs : Malloc(s, size)
    \/ \E s \in Handles, input_str \in StrdupArgs : Strdup(s, FALSE, input_str)
    \/ \E s \in Handles : Strdup(s, TRUE, <<>>)
    \/ \E s \in Handles, memory_ptr \in FreeArgs : Free(s, memory_ptr)

Spec == Init /\ [][Next]_vars

(* ---- the calls store by store: a process killed inside a call ---- *)

\* the stores scm_malloc makes, in program order (lines 182, 183 and 190); it
\* makes none when it returns at line 168 or 177
scm_malloc_stores(s, size) ==
    IF ~s.live \/ s.base = MAP_FAILED \/ size = 0 THEN <<>>
    ELSE IF (s.utilized + size + METADATA_SIZE) % SizeMod > s.capacity THEN <<>>
    ELSE
        LET block_meta == (s.base + s.utilized) % SizeMod
            utilized == (s.utilized + size + METADATA_SIZE) % SizeMod
        IN  << [addr |-> block_meta, n |-> SizeofSizeT, v |-> 1],
               [addr |-> block_meta + SizeofSizeT, n |-> SizeofSizeT, v |-> size],
               [addr |-> s.mapped + SizeofInt, n |-> SizeofInt,
                v |-> SizeTToInt(utilized) % IntMod] >>

\* the stores scm_strdup makes on a handle, in program order (lines 209, 210,
\* the bytes strcpy copies at line 216, and line 223)
scm_strdup_stores(s, isnull, input_str) ==
    IF ~s.live \/ isnull \/ s.base = MAP_FAILED THEN <<>>
    ELSE
        LET allocation_metadata == (s.base + s.utilized) % SizeMod
            duplicated_str == (allocation_metadata + METADATA_SIZE) % SizeMod
            copy == Append(input_str, 0)
            utilized == (s.utilized + Len(input_str) + 1 + METADATA_SIZE) % SizeMod
        IN  << [addr |-> allocation_metadata, n |-> SizeofSizeT, v |-> 1],
               [addr |-> allocation_metadata + SizeofSizeT, n |-> SizeofSizeT,
                v |-> Len(input_str) + 1] >>
            \o [i \in 1..Len(copy) |->
                   [addr |-> duplicated_str + i - 1, n |-> 1, v |-> copy[i]]]
            \o << [addr |-> s.mapped + SizeofInt, n |-> SizeofInt,
                   v |-> SizeTToInt(utilized) % IntMod] >>

RECURSIVE RunStores(_, _, _)
\* the first k stores of ws, made one after the other
RunStores(ms, ws, k) ==
    IF k = 0 \/ ws = <<>> THEN ms
    ELSE IF ms.ok /\ Accessible(Head(ws).addr, Head(ws).n)
    THEN RunStores([mem |-> Put(ms.mem, Off(Head(ws).addr), Head(ws).n, Head(ws).v),
                    ok |-> TRUE], Tail(ws), k - 1)
    ELSE [mem |-> ms.mem, ok |-> FALSE]

\* the process is killed inside a call of op after the k-th of its stores ws
Crash(op, s, arg, str, ws, k) ==
    /\ s.live
    /\ nops < MaxCrashAt
    /\ Count
    /\ LET ms == RunStores([mem |-> mem, ok |-> TRUE], ws, k) IN
         /\ ms.ok
         /\ mem' \in AfterUnmap(ms.mem)
    /\ scm' = NoScm
    /\ fds' = {}
    /\ saved' = NoSaved
    /\ clean' = FALSE
    /\ call' = [op |-> op, hnull |-> FALSE, arg |-> arg, str |-> str,
                status |-> "crash", ret |-> NULL]
    /\ UNCHANGED <<st_size, badclose, issued>>

MallocCrash(s, size) ==
    \E k \in 1..Len(scm_malloc_stores(s, size)) :
        Crash("malloc", s, size, <<>>, scm_malloc_stores(s, size), k)

StrdupCrash(s, input_str) ==
    \E k \in 1..Len(scm_strdup_stores(s, FALSE, input_str)) :
        Crash("strdup", s, 1, input_str, scm_strdup_stores(s, FALSE, input_str), k)

NextCrash ==
    \/ Next
    \/ \E s \in Handles, size \in MallocArgs : MallocCrash(s, size)
    \/ \E s \in Handles, input_str \in StrdupArgs : StrdupCrash(s, input_str)

SpecCrash == Init /\ [][NextCrash]_vars

(* ---- vocabulary of the claims ---- *)

\* this step is a call of operation op
Called(op) == nops' = nops + 1 /\ call'.op = op

\* this step is a call of op on the open handle
CalledOnHandle(op) == Called(op) /\ ~call'.hnull /\ scm.live

\* the bytes at addr up to the first zero byte, read as a C string
RECURSIVE CString(_, _, _)
CString(m, addr, fuel) ==
    IF fuel = 0 \/ ~Accessible(addr, 1) \/ Peek(m, Off(addr)) = 0 THEN <<>>
    ELSE <<Peek(m, Off(addr))>> \o CString(m, addr + 1, fuel - 1)

\* the payload addresses of a chain
PayloadStarts(c) == {c[i].addr : i \in DOMAIN c}

RECURSIVE SumSizes(_)
\* the sum of the sizes requested in a sequence of issued blocks
SumSizes(q) == IF q = <<>> THEN 0 ELSE Head(q).size + SumSizes(Tail(q))

\* the store holds exactly the blocks of n = Len(issued) scm_malloc calls
\* made since it was reset
OnlyMallocs ==
    /\ scm.live /\ clean
    /\ \A i \in DOMAIN issued : issued[i].by = "malloc"
    /\ scm.utilized = SumSizes(issued) + Len(issued) * METADATA_SIZE

(* ---- C1 ---- *)
\* C1: for an open handle and a size s > 0 with utilization + s +
\* blockHeaderSize <= capacity, allocate returns base + utilization_before +
\* blockHeaderSize, writes the header (in-use 1, size s) at base +
\* utilization_before, and leaves utilization = utilization_before + s +
\* blockHeaderSize.
C1_AllocateSucceeds ==
    [][(/\ CalledOnHandle("malloc")
        /\ call'.arg > 0
        /\ scm.utilized + call'.arg + METADATA_SIZE <= scm.capacity)
       => (/\ call'.status = "ret"
           /\ call'.ret # NULL
           /\ call'.ret = scm.base + scm.utilized + METADATA_SIZE
           /\ LoadSizeT(mem', scm.base + scm.utilized) = 1
           /\ LoadSizeT(mem', scm.base + scm.utilized + SizeofSizeT) = call'.arg
           /\ scm'.utilized = scm.utilized + call'.arg + METADATA_SIZE)]_vars

(* ---- C2 ---- *)
\* C2: whenever allocate returns null, it is because the size is zero, the
\* handle is null or utilization + size + blockHeaderSize exceeds capacity,
\* and the store is unchanged: cached utilization, the Arena Header and every
\* block are as before the call, and repeating the call gives the same result.
C2_NullLeavesStoreUnchanged ==
    [][(Called("malloc") /\ call'.status = "ret" /\ call'.ret = NULL)
       => LET s == IF call'.hnull THEN NoScm ELSE scm'
              again == scm_malloc(s, mem', call'.arg)
          IN  /\ \/ call'.arg = 0
                 \/ call'.hnull
                 \/ scm.utilized + call'.arg + METADATA_SIZE > scm.capacity
              /\ mem' = mem
              /\ scm' = scm
              /\ again = Returned(NULL, mem, s.utilized)]_vars

\* allocate has just failed for lack of room on a store that holds blocks
C2_Witness ==
    /\ call.op = "malloc" /\ call.status = "ret" /\ call.ret = NULL
    /\ ~call.hnull /\ call.arg > 0
    /\ scm.live /\ scm.utilized > 0
    /\ Len(issued) > 0

(* ---- C3 ---- *)
\* C3: after open(reset), successful allocate/duplicateString/free calls,
\* close and open(no reset), the handle reports the utilization it had before
\* close, every block keeps its address, in-use flag, size and payload, and the
\* next allocate returns the address it would have returned without the close.
C3_RoundTrip ==
    (/\ call.op = "open" /\ call.arg = 0 /\ call.ret # NULL
     /\ scm.live /\ saved.valid)
    => (/\ scm.utilized = saved.utilized
        /\ Chain(mem, scm.utilized) = saved.blocks
        /\ Payloads(mem, Chain(mem, scm.utilized)) = saved.payloads
        /\ \A size \in Sizes :
              scm_malloc(scm, mem, size).ret
              = scm_malloc([scm EXCEPT !.utilized = saved.utilized], mem, size).ret)

(* ---- C4 ---- *)
\* C4: free(handle, p) of an address p returned by a successful allocate or
\* duplicateString since the last reset clears exactly that block's in-use
\* flag and changes nothing else; a second free(handle, p) changes nothing.
C4_FreeClearsFlagOnly ==
    [][(/\ CalledOnHandle("free")
        /\ \E i \in DOMAIN issued : issued[i].addr = call'.arg)
       => (/\ call'.status = "ret"
           /\ scm' = scm
           /\ mem' = Put(mem, Off(call'.arg - METADATA_SIZE), SizeofSizeT, 0)
           /\ scm_free(scm', mem', call'.arg) = Returned(NULL, mem', scm'.utilized))]_vars

(* ---- C5 ---- *)
\* C5: free(handle, a) with an address a that is not the payload start of a
\* block of the utilized chain changes no state at all.
C5_FreeUnmatchedIsNoOp ==
    [][(/\ CalledOnHandle("free")
        /\ call'.arg \notin PayloadStarts(Chain(mem, scm.utilized)))
       => (call'.status = "ret" /\ mem' = mem /\ scm' = scm)]_vars

(* ---- C6 ---- *)
\* C6: in every state of an open store the sum of (blockHeaderSize + stored
\* payload size) over the blocks of the chain equals the utilization counter.
C6_ChainCoversUtilization ==
    scm.live => ChainBytes(Chain(mem, scm.utilized)) = scm.utilized

(* ---- C7 ---- *)
\* C7: right after open, allocate, duplicateString or free returns, the
\* utilization word of the Arena Header equals the cached utilization.
C7_HeaderEqualsCached ==
    (/\ scm.live
     /\ call.status = "ret"
     /\ call.op \in {"open", "malloc", "strdup", "free"})
    => LoadInt(mem, scm.mapped + SizeofInt) = scm.utilized

(* ---- C8 ---- *)
\* C8: on a freshly reset store of capacity C, n allocate calls whose sizes sum
\* to exactly C - arenaHeaderSize - n * blockHeaderSize all succeed, and then
\* one more allocate of any size >= 1 returns null.
C8_ExactFillThenFull ==
    [][(/\ CalledOnHandle("malloc")
        /\ call'.arg >= 1
        /\ OnlyMallocs)
       => (/\ (scm.utilized + call'.arg + METADATA_SIZE <= scm.capacity - INT_SIZE)
                => (call'.status = "ret" /\ call'.ret # NULL)
           /\ (Len(issued) > 0 /\ scm.utilized = scm.capacity - INT_SIZE)
                => (call'.status = "ret" /\ call'.ret = NULL))]_vars

(* ---- C9 ---- *)
\* C9: with enough remaining capacity, duplicateString(handle, text) returns
\* the address and leaves the store that allocate(handle, length(text) + 1)
\* followed by a copy of text and its terminator leaves: header in-use 1 and
\* size length + 1, utilization advanced and published to the Arena Header,
\* and the returned address reads back as text.
C9_StrdupIsMallocThenCopy ==
    [][(/\ CalledOnHandle("strdup")
        /\ call'.arg = 1
        /\ scm.utilized + Len(call'.str) + 1 + METADATA_SIZE <= scm.capacity)
       => LET n == Len(call'.str) + 1
              a == scm_malloc(scm, mem, n)
              copied == StoreBytes([mem |-> a.mem, ok |-> TRUE], a.ret,
                                   Append(call'.str, 0))
          IN  /\ call'.status = "ret"
              /\ a.status = "ret"
              /\ call'.ret # NULL
              /\ call'.ret = a.ret
              /\ copied.ok
              /\ mem' = copied.mem
              /\ scm'.utilized = a.utilized
              /\ LoadSizeT(mem', call'.ret - METADATA_SIZE) = 1
              /\ LoadSizeT(mem', call'.ret - SizeofSizeT) = n
              /\ scm'.utilized = scm.utilized + n + METADATA_SIZE
              /\ LoadInt(mem', scm.mapped + SizeofInt) = scm'.utilized
              /\ CString(mem', call'.ret, MapTop) = call'.str]_vars

(* ---- C10 ---- *)
\* C10: a successful open with reset, or on a file whose sentinel word is not
\* 1, sets sentinel = 1, utilization word = 0 and cached utilization = 0 and
\* leaves every byte after the Arena Header as it was; otherwise it modifies
\* no byte and the cached utilization equals the persisted utilization word.
C10_OpenInitialisesOrAdopts ==
    [][(Called("open") /\ call'.ret # NULL)
       => IF call'.arg = 1 \/ LoadInt(mem, VIRT_ADDR) # 1
          THEN /\ LoadInt(mem', VIRT_ADDR) = 1
               /\ LoadInt(mem', VIRT_ADDR + SizeofInt) = 0
               /\ scm'.utilized = 0
               /\ \A i \in INT_SIZE..(MapTop - 1) : Peek(mem', i) = Peek(mem, i)
          ELSE /\ mem' = mem
               /\ scm'.utilized = LoadInt(mem, VIRT_ADDR + SizeofInt)]_vars

(* ---- C11 ---- *)
\* C11: duplicateString with a null handle or a null text returns null as an
\* ordinary result (the process does not fault) and changes no store.
C11_StrdupNullArgsReturnNull ==
    [][(Called("strdup") /\ (call'.hnull \/ call'.arg = 0))
       => (/\ call'.status = "ret"
           /\ call'.ret = NULL
           /\ mem' = mem
           /\ scm' = scm)]_vars

(* ---- C12 ---- *)
\* C12: free with a null handle returns normally, for every address, without
\* faulting and without touching any store state.
C12_FreeNullHandleIsNoOp ==
    [][(Called("free") /\ call'.hnull)
       => (/\ call'.status = "ret"
           /\ mem' = mem
           /\ scm' = scm
           /\ fds' = fds)]_vars

(* ---- C13 ---- *)
\* C13: when the process is killed between two stores of allocate or
\* duplicateString, the persisted utilization word covers only blocks whose
\* headers are written (in-use 0 or 1, size at least 1), and a reopen without
\* reset adopts a utilization that the block chain sums to exactly.
C13_CrashConsistent ==
    (call.status = "crash")
    => LET a == scm_open_arena(mem, FALSE)
           c == Chain(mem, a.utilized)
       IN  /\ ~a.init
           /\ a.utilized = LoadInt(mem, VIRT_ADDR + SizeofInt)
           /\ \A i \in DOMAIN c : c[i].inuse \in {0, 1} /\ c[i].size >= 1
           /\ ChainBytes(c) = a.utilized

\* every complete run of a call's stores is the call
StoresAreTheCall ==
    scm.live =>
       /\ \A size \in Sizes :
            LET ws == scm_malloc_stores(scm, size)
                ms == RunStores([mem |-> mem, ok |-> TRUE], ws, Len(ws))
                r == scm_malloc(scm, mem, size)
            IN  /\ ms.ok = (r.status = "ret")
                /\ ms.mem = r.mem
       /\ \A str \in Strings :
            LET ws == scm_strdup_stores(scm, FALSE, str)
                ms == RunStores([mem |-> mem, ok |-> TRUE], ws, Len(ws))
                r == scm_strdup(scm, mem, FALSE, str)
            IN  /\ ms.ok = (r.status = "ret")
                /\ ms.mem = r.mem

(* ---- C14 ---- *)
\* C14: on an open handle with utilization > 0, scm_mbase returns the payload
\* address of the first block of the chain, which is the address the first
\* successful allocate or duplicateString since the last reset returned (also
\* after close and reopen without reset); with utilization 0 it returns the
\* address right after the Arena Header.
C14_FirstBlockAddress ==
    scm.live =>
       IF scm.utilized > 0
       THEN /\ Len(issued) > 0
            /\ scm_mbase(scm) = issued[1].addr
            /\ FirstBlock(mem, scm.utilized) # <<>>
            /\ scm_mbase(scm) = FirstBlock(mem, scm.utilized)[1].addr
       ELSE scm_mbase(scm) = scm.mapped + INT_SIZE

\* a store holding two blocks has been closed and reopened without reset
C14_Witness ==
    /\ scm.live /\ scm.utilized > 0
    /\ call.op = "open" /\ call.arg = 0 /\ saved.valid
    /\ Len(issued) >= 2
    /\ scm_mbase(scm) = issued[1].addr

C16_NoReclamation ==
    [][(/\ \E op \in {"malloc", "strdup", "free"} : CalledOnHandle(op)
        /\ call'.status = "ret")
       => (/\ scm'.utilized >= scm.utilized
           /\ Len(issued') > Len(issued)
                => \A i \in DOMAIN issued :
                      /\ call'.ret > issued[i].addr
                      /\ call'.ret - METADATA_SIZE
                            >= issued[i].addr + issued[i].size)]_vars

(* ---- C17 ---- *)
\* C17: allocate on an open handle returns null and leaves the store unchanged
\* for every size for which utilization + size + blockHeaderSize, summed as
\* integers without wrap-around, exceeds capacity.
C17_TrueSumChecked ==
    [][(/\ CalledOnHandle("malloc")
        /\ scm.utilized + call'.arg + METADATA_SIZE > scm.capacity)
       => (/\ call'.status = "ret"
           /\ call'.ret = NULL
           /\ mem' = mem
           /\ scm' = scm)]_vars

(* ---- C18 ---- *)
\* C18: in every state reached by open and allocate calls only, arenaHeaderSize
\* + utilization <= capacity, and every block of the chain ends at or before
\* mapping start + capacity.
C18_BlocksInsideFile ==
    (/\ scm.live /\ clean
     /\ \A i \in DOMAIN issued : issued[i].by = "malloc")
    => (/\ INT_SIZE + scm.utilized <= scm.capacity
        /\ \A i \in DOMAIN Chain(mem, scm.utilized) :
              Chain(mem, scm.utilized)[i].addr + Chain(mem, scm.utilized)[i].size
                 <= scm.mapped + scm.capacity)

(* ---- C19 ---- *)
\* C19: every descriptor scm_open obtains is closed exactly once: when
\* scm_open or scm_close has returned, no descriptor obtained by scm_open is
\* still open (also after a failed open), and scm_close has never closed a
\* descriptor number that was already closed.
C19_DescriptorClosedOnce ==
    (call.op \in {"open", "close"} /\ call.status = "ret")
    => (fds = {} /\ badclose = 0)

(* ---- C20 ---- *)
\* C20: for every utilization u an open handle reaches, the utilization word
\* written to the Arena Header holds u, and open without reset reads back u.
C20_WordRepresentsUtilization ==
    (scm.live /\ call.status = "ret")
    => (/\ LoadInt(mem, scm.mapped + SizeofInt) = scm.utilized
        /\ scm_open_arena(mem, FALSE).utilized = scm.utilized)

====
